---------------------------- MODULE Spec2Model ----------------------------
(***************************************************************************)
(* A model of rsaarelm/voxelize: the sprite-to-voxel reconstruction of     *)
(* src/src/main.rs (FocusImage, Prism, build_model, to_vox) and the        *)
(* voxel-to-sprite projection of src/src/lib.rs (trace, Body::sample,      *)
(* build_view, Rect).                                                      *)
(*                                                                         *)
(* f32 values are modelled in fixed point: the integer v stands for the    *)
(* float v / ONE.  Every input of the model is chosen so that the float    *)
(* arithmetic of the code is exact on it (or, for the oblique unit         *)
(* 1/sqrt(2), so far from a rounding tie that the fixed-point value        *)
(* rounds as the float does).                                              *)
(*                                                                         *)
(* The module holds one state machine per component, each with its own     *)
(* specification (SpecFocus, ...).  A component's variables keep their     *)
(* idle value in the specifications of the other components.               *)
(***************************************************************************)
EXTENDS Integers, Sequences, FiniteSets

VARIABLES
    source,     \* the raw Image handed to FocusImage::try_from
    focus,      \* the Result<FocusImage> of try_from
    uv,         \* the point last given to FocusImage::sample
    sampled,    \* the Option<Pixel> it returned
    views,      \* the Vec<Prism> handed to build_model
    built,      \* what build_model returned
    voxmap,     \* the HashMap<IVec3, Pixel> handed to to_vox, as the
                \* sequence of its entries in the order it iterates them
    vox,        \* what to_vox returned
    ray,        \* the iterator trace returned: its pos and dir
    cells,      \* the cells the iterator has yielded so far
    body,       \* the dot_vox::Model that is sampled
    probe,      \* the position last given to its sample
    got,        \* the Option<u8> it returned
    scene,      \* the body and the camera handed to build_view
    view,       \* what build_view returned
    rect,       \* a Rect
    point,      \* the point last given to normalize
    unit,       \* what normalize returned
    back,       \* what denormalize returned for it
    canvas,     \* the image handed to the outline removal
    cleared,    \* the image the outline removal left
    data,       \* the DotVoxData that set_voxel edits
    edit        \* the last set_voxel call and the data before it

focusVars == <<source, focus, uv, sampled>>

reconVars == <<views, built>>

voxVars == <<voxmap, vox>>

traceVars == <<ray, cells>>

bodyVars == <<body, probe, got>>

viewVars == <<scene, view>>

rectVars == <<rect, point, unit, back>>

outlineVars == <<canvas, cleared>>

editVars == <<data, edit>>

vars == <<focusVars, reconVars, voxVars, traceVars, bodyVars, viewVars,
          rectVars, outlineVars, editVars>>

\* The variables of the other components, which a component's actions
\* leave alone.
libVars == <<traceVars, bodyVars, viewVars, rectVars, outlineVars,
             editVars>>

mainVars == <<focusVars, reconVars, voxVars>>

notFocus == <<reconVars, voxVars, libVars>>

notRecon == <<focusVars, voxVars, libVars>>

notVox == <<focusVars, reconVars, libVars>>

notTrace == <<mainVars, bodyVars, viewVars, rectVars, outlineVars, editVars>>

notBody == <<mainVars, traceVars, viewVars, rectVars, outlineVars, editVars>>

notView == <<mainVars, traceVars, bodyVars, rectVars, outlineVars, editVars>>

notRect == <<mainVars, traceVars, bodyVars, viewVars, outlineVars, editVars>>

notOutline == <<mainVars, traceVars, bodyVars, viewVars, rectVars, editVars>>

notEdit == <<mainVars, traceVars, bodyVars, viewVars, rectVars, outlineVars>>

----------------------------------------------------------------------------
(* Fixed point and small helpers *)

\* The fixed-point unit: the integer ONE stands for the f32 1.0.
ONE == 10000

Abs(n) == IF n < 0 THEN -n ELSE n

Min(a, b) == IF a < b THEN a ELSE b

Max(a, b) == IF a < b THEN b ELSE a

\* f32::round: the nearest integer, halfway cases away from zero; the result
\* is the integer itself (not in fixed point).
Round(v) == IF v >= 0 THEN (v + ONE \div 2) \div ONE
                      ELSE -((ONE \div 2 - v) \div ONE)

\* Option<T>
None == [some |-> FALSE]

Some(v) == [some |-> TRUE, val |-> v]

----------------------------------------------------------------------------
(* Pixels and images (main.rs) *)

\* Transparent color in images we generate.
DEFAULT_KEY == <<0, 0, 0, 0>>

Black == <<0, 0, 0, 255>>

Red == <<255, 0, 0, 255>>

\* The Rgba<u8> values the model's images are painted with.
Pixels == {DEFAULT_KEY, Black, Red}

\* The cells of a w x h ImageBuffer.
Cells(w, h) == (0 .. w - 1) \X (0 .. h - 1)

\* ImageBuffer::from_fn
ImageFromFn(w, h, f) ==
    [w |-> w, h |-> h, px |-> [c \in Cells(w, h) |-> f[c]]]

\* ImageBuffer::get_pixel
GetPixel(image, x, y) == image.px[<<x, y>>]

\* ImageBuffer::put_pixel
PutPixel(image, x, y, p) == [image EXCEPT !.px[<<x, y>>] = p]

\* Itertools::at_most_one over a sequence: Ok(None), Ok(Some(x)) or Err.
AtMostOneFirst(s) ==
    IF Len(s) = 0 THEN [ok |-> TRUE, item |-> None]
    ELSE [ok |-> TRUE, item |-> Some(s[1])]

AtMostOne(s) ==
    IF Len(s) = 0 THEN [ok |-> TRUE, item |-> None]
    ELSE IF Len(s) = 1 THEN [ok |-> TRUE, item |-> Some(s[1])]
    ELSE [ok |-> FALSE]

\* (0..n).filter(test): the indices in increasing order that pass, test
\* given as the function index -> bool.
FilterRange(n, test) ==
    LET Keep(i) == test[i] IN SelectSeq([i \in 1 .. n |-> i - 1], Keep)

Bail(msg) == [kind |-> "err", msg |-> msg]

\* impl TryFrom<Image> for FocusImage
TryFrom(image) ==
    IF image.w < 2 \/ image.h < 2 THEN Bail("Invalid image size")
    ELSE
      LET key == GetPixel(image, 0, 0)
          notKeyX == [x \in 0 .. image.w - 1 |-> GetPixel(image, x, 0) # key]
          notKeyY == [y \in 0 .. image.h - 1 |-> GetPixel(image, 0, y) # key]
          fx == AtMostOne(FilterRange(image.w, notKeyX))
          fy == AtMostOne(FilterRange(image.h, notKeyY))
          strip == [c \in Cells(image.w - 1, image.h - 1) |->
                      LET p == GetPixel(image, c[1] + 1, c[2] + 1)
                      IN IF p = key THEN DEFAULT_KEY ELSE p]
      IN IF ~(fx.ok /\ fx.item.some) THEN Bail("No unique x-focus pixel found")
         ELSE IF ~(fy.ok /\ fy.item.some)
              THEN Bail("No unique y-focus pixel found")
         ELSE [kind |-> "ok",
               image |-> ImageFromFn(image.w - 1, image.h - 1, strip),
               center |-> <<fx.item.val, fy.item.val>>]

\* FocusImage::sample.  p is a Vec3 in fixed point.
FocusSample(f, p) ==
    LET x == Round(p[1]) + f.center[1]
        y == -Round(p[2]) + f.center[2]
    IN IF x > 0 /\ y > 0 /\ x < f.image.w /\ y < f.image.h
       THEN LET q == GetPixel(f.image, x, y)
            IN IF q # DEFAULT_KEY THEN Some(q) ELSE None
       ELSE None

----------------------------------------------------------------------------
(* Vectors, cameras and prisms (main.rs) *)

\* Componentwise operations on 3-vectors of integers.
VAdd(a, b) == <<a[1] + b[1], a[2] + b[2], a[3] + b[3]>>

VSub(a, b) == <<a[1] - b[1], a[2] - b[2], a[3] - b[3]>>

VScale(a, k) == <<a[1] * k, a[2] * k, a[3] * k>>

\* The oblique unit of main.rs, FRAC_1_SQRT_2, in fixed point.
OB_MAIN == 7071

\* Mat4::IDENTITY: the three axes and the translation column, in fixed point.
Identity == [x_axis |-> <<ONE, 0, 0>>, y_axis |-> <<0, ONE, 0>>,
             z_axis |-> <<0, 0, ONE>>, w_axis |-> <<0, 0, 0>>]

\* Mat4::from_scale(vec3(1.0, 1.0, -1.0)): a caller's camera looking the
\* other way along z.
MirrorZ == [Identity EXCEPT !.z_axis = <<0, 0, -ONE>>]

\* Mat4::from_rotation_z(turns * FRAC_PI_2) applied on the right of m:
\* the x and y axes of m rotated, z_axis and w_axis kept.
MulRotationZ(m, turns) ==
    LET x == m.x_axis
        y == m.y_axis
    IN CASE turns = 0 -> m
         [] turns = 1 -> [m EXCEPT !.x_axis = y, !.y_axis = VScale(x, -1)]
         [] turns = 2 -> [m EXCEPT !.x_axis = VScale(x, -1),
                                   !.y_axis = VScale(y, -1)]
         [] turns = 3 -> [m EXCEPT !.x_axis = VScale(y, -1), !.y_axis = x]

\* impl From<Camera> for Mat4, with the oblique unit ob.
Mat4From(value, ob) ==
    LET shear == [Identity EXCEPT !.z_axis = <<-ob, ob, ONE>>]
    IN CASE value = "ObliqueNorth" -> shear
         [] value = "ObliqueEast" -> MulRotationZ(shear, 1)
         [] value = "ObliqueSouth" -> MulRotationZ(shear, 2)
         [] value = "ObliqueWest" -> MulRotationZ(shear, 3)

\* Mat4::transform_point3 of a point with integer coordinates; the result
\* is in fixed point.
TransformPoint3(m, p) ==
    VAdd(VAdd(VScale(m.x_axis, p[1]), VScale(m.y_axis, p[2])),
         VAdd(VScale(m.z_axis, p[3]), m.w_axis))

\* Mat4::transform_vector3 of a vector with integer coordinates.
TransformVector3(m, v) ==
    VAdd(VAdd(VScale(m.x_axis, v[1]), VScale(m.y_axis, v[2])),
         VScale(m.z_axis, v[3]))

\* Prism::new
PrismNew(image, camera) == [image |-> image, camera |-> camera]

\* Prism::sample
PrismSample(prism, pos) ==
    FocusSample(prism.image, TransformPoint3(prism.camera, pos))

\* Prism::normal
PrismNormal(prism) == TransformVector3(prism.camera, <<0, 0, 1>>)

----------------------------------------------------------------------------
(* build_model (main.rs) *)

\* The radius of the cube build_model scans: const N = 64 in the code, cut
\* down here so that the scan can be enumerated.
ScanN == 1

Cube(n) == (-n .. n) \X (-n .. n) \X (-n .. n)

\* The six axis neighbours, in the order of the loops over x, y and z.
Faces == << <<-1, 0, 0>>, <<0, -1, 0>>, <<0, 0, -1>>,
            <<0, 0, 1>>, <<0, 1, 0>>, <<1, 0, 0>> >>

\* The matches of one position: a VoxelMatch for each view, in order, whose
\* sample is present.
RECURSIVE Matches(_, _, _)
Matches(vs, pos, i) ==
    IF i > Len(vs) THEN <<>>
    ELSE LET c == PrismSample(vs[i], pos)
             rest == Matches(vs, pos, i + 1)
         IN IF c.some
            THEN <<[color |-> c.val, normal |-> PrismNormal(vs[i])]>> \o rest
            ELSE rest

\* if matches.len() == views.len()
AnyViewMatches(matches, vs) == Len(matches) >= 1

AllViewsMatch(matches, vs) == Len(matches) = Len(vs)

\* The hits map after the scan of the cube.
Hits(vs) ==
    LET acc == {pos \in Cube(ScanN) :
                   AllViewsMatch(Matches(vs, pos, 1), vs)}
    IN [pos \in acc |-> Matches(vs, pos, 1)]

\* The sum of the exposed faces of an accepted position: the offsets d
\* with pos + d not in hits, folded from Vec3::ZERO.
RECURSIVE ExposedSum(_, _, _)
ExposedSum(keys, pos, i) ==
    IF i > Len(Faces) THEN <<0, 0, 0>>
    ELSE LET rest == ExposedSum(keys, pos, i + 1)
         IN IF VAdd(pos, Faces[i]) \notin keys
            THEN VAdd(Faces[i], rest)
            ELSE rest

\* Vec3::normalize of a vector with components in {-1, 0, 1}: the float
\* vector dir / sqrt(k), k the number of nonzero components; all NaN when
\* the vector is zero (0.0 * (1.0 / 0.0)).
Normalize(v) ==
    LET k == Abs(v[1]) + Abs(v[2]) + Abs(v[3])
    IN [nan |-> k = 0, dir |-> v, k |-> k]

\* A zero product of one component of a view normal a (fixed point, zeros
\* are +0.0) and one of the surface normal (zeros are +0.0): is it -0.0?
NegZeroTerm(a, b) == (a < 0 /\ b = 0) \/ (a = 0 /\ b < 0)

\* Vec3::dot of a view normal m (fixed point) with a normalized normal n.
\* The float is (-1)^neg * num / sqrt(n.k) / ONE; it is NaN when n is.  A
\* zero sum is -0.0 exactly when its three terms are all -0.0.
Dot(m, n) ==
    LET d == m[1] * n.dir[1] + m[2] * n.dir[2] + m[3] * n.dir[3]
        allNegZero == \A i \in 1 .. 3 : NegZeroTerm(m[i], n.dir[i])
    IN [nan |-> n.nan, neg |-> d < 0 \/ (d = 0 /\ allNegZero),
        num |-> Abs(d)]

\* f32::to_bits as the pair <<sign bit, the other 31 bits>>; u32 order is
\* the lexicographic order of the pairs.  Floats of one position share
\* sqrt(k), so their magnitudes order as num does.  The sign of a NaN is
\* not determined: nanSign is the one this evaluation produced.
ToBits(f, nanSign) ==
    IF f.nan THEN <<nanSign, 2 * ONE * ONE>>
    ELSE <<IF f.neg THEN 1 ELSE 0, f.num>>

BitsLess(a, b) == a[1] < b[1] \/ (a[1] = b[1] /\ a[2] < b[2])

\* Iterator::min_by_key with the key cmp::Reverse(bits[i]): the index of
\* the first element whose bits are the largest.
MinByKeyReverse(bits) ==
    CHOOSE i \in 1 .. Len(bits) :
        /\ \A j \in 1 .. Len(bits) : ~BitsLess(bits[i], bits[j])
        /\ \A j \in 1 .. i - 1 : BitsLess(bits[j], bits[i])

\* The second loop of build_model over hits, the map the scan left.
\* nanSigns[i] is the sign bit of the NaN that the dot product with view i
\* yields at a position with no exposed face.
Resolve(hits, nanSigns) ==
    LET Color(pos) ==
            LET matches == hits[pos]
                normal == Normalize(ExposedSum(DOMAIN hits, pos, 1))
                bits == [i \in 1 .. Len(matches) |->
                            ToBits(Dot(matches[i].normal, normal),
                                   nanSigns[i])]
            IN matches[MinByKeyReverse(bits)].color
    IN [pos \in DOMAIN hits |-> Color(pos)]

\* build_model: assert!(!views.is_empty()), then the scan (hits is
\* Hits(vs), evaluated once by the caller for all nanSigns), then the
\* second loop.
BuildModel(vs, hits, nanSigns) ==
    IF Len(vs) = 0 THEN [kind |-> "panic"]
    ELSE [kind |-> "ok", map |-> Resolve(hits, nanSigns)]

----------------------------------------------------------------------------
(* The focus-image machine: an image is made and painted by the caller,    *)
(* turned into a FocusImage, and sampled.                                  *)

\* Largest width and height of a source image.
MaxDim == 3

\* Most pixels the caller paints over the fill color.
MaxPaint == 3

\* Largest |coordinate| of a sampled point, in half units.
MaxHalf == 3

NoFocus == [kind |-> "none"]

\* Cells whose color differs from that of the last cell painted over the
\* fill (the image starts as ImageBuffer::from_pixel(w, h, fill)).
Painted(image) == {c \in Cells(image.w, image.h) : image.px[c] # image.fill}

IdleTrace == ray = [kind |-> "none"] /\ cells = <<>>

IdleBody ==
    /\ body = [size |-> <<0, 0, 0>>, voxels |-> <<>>]
    /\ probe = None
    /\ got = None

IdleView == scene = [kind |-> "none"] /\ view = [kind |-> "none"]

IdleRect ==
    /\ rect = [min |-> <<0, 0>>, max |-> <<0, 0>>]
    /\ point = None
    /\ unit = None
    /\ back = None

IdleOutline ==
    /\ canvas = [w |-> 0, h |-> 0, fill |-> DEFAULT_KEY, px |-> <<>>]
    /\ cleared = [kind |-> "none"]

IdleEdit ==
    /\ data = [models |-> <<>>, palette |-> <<>>]
    /\ edit = [kind |-> "none", n |-> 0]

IdleLib ==
    /\ IdleTrace /\ IdleBody /\ IdleView /\ IdleRect
    /\ IdleOutline /\ IdleEdit

IdleRecon == views = <<>> /\ built = [kind |-> "none"]

IdleVox == voxmap = <<>> /\ vox = [kind |-> "none"]

InitFocus ==
    /\ \E w \in 0 .. MaxDim, h \in 0 .. MaxDim, fill \in Pixels :
          source = [w |-> w, h |-> h, fill |-> fill,
                    px |-> [c \in Cells(w, h) |-> fill]]
    /\ focus = NoFocus
    /\ uv = None
    /\ sampled = None
    /\ IdleRecon /\ IdleVox /\ IdleLib

\* The caller paints one pixel of the source image.
Paint ==
    /\ focus.kind = "none"
    /\ Cardinality(Painted(source)) < MaxPaint
    /\ \E c \in Cells(source.w, source.h), p \in Pixels \ {source.fill} :
          /\ source.px[c] = source.fill
          /\ source' = PutPixel(source, c[1], c[2], p)
    /\ UNCHANGED <<focus, uv, sampled, notFocus>>

\* FocusImage::try_from(source)
Construct ==
    /\ focus.kind = "none"
    /\ focus' = TryFrom(source)
    /\ UNCHANGED <<source, uv, sampled, notFocus>>

\* focus.sample(p)
Sample ==
    /\ focus.kind = "ok"
    /\ uv = None
    /\ \E x2 \in -MaxHalf .. MaxHalf, y2 \in -MaxHalf .. MaxHalf :
          LET p == <<x2 * (ONE \div 2), y2 * (ONE \div 2), 0>>
          IN /\ uv' = Some(p)
             /\ sampled' = FocusSample(focus, p)
    /\ UNCHANGED <<source, focus, notFocus>>

NextFocus == Paint \/ Construct \/ Sample

SpecFocus == InitFocus /\ [][NextFocus]_vars

\* The columns of row 0, and the rows of column 0, whose pixel differs from
\* the pixel at (0, 0).
RowMarkers(image) ==
    {x \in 0 .. image.w - 1 : image.px[<<x, 0>>] # image.px[<<0, 0>>]}

ColMarkers(image) ==
    {y \in 0 .. image.h - 1 : image.px[<<0, y>>] # image.px[<<0, 0>>]}

\* C3: FocusImage::try_from succeeds if and only if the image is at least
\* 2 x 2 and row 0 and column 0 each hold exactly one pixel that differs
\* from pixel (0, 0); it is an error in every other case, and on success the
\* center is (column of the row-0 marker, row of the column-0 marker).
C3_TryFromIffUniqueMarkers ==
    focus.kind # "none" =>
        /\ focus.kind \in {"ok", "err"}
        /\ focus.kind = "ok" <=>
               /\ source.w >= 2 /\ source.h >= 2
               /\ Cardinality(RowMarkers(source)) = 1
               /\ Cardinality(ColMarkers(source)) = 1
        /\ focus.kind = "ok" =>
               /\ RowMarkers(source) = {focus.center[1]}
               /\ ColMarkers(source) = {focus.center[2]}

\* A 3 x 3 image with its markers at column 2 and row 1 was accepted.
C3_Witness ==
    /\ focus.kind = "ok"
    /\ source.w = 3 /\ source.h = 3
    /\ focus.center = <<2, 1>>

\* The cell of the stored image that the sampled point maps to.
SampledCell == <<Round(uv.val[1]) + focus.center[1],
                 -Round(uv.val[2]) + focus.center[2]>>

\* C4: FocusImage::sample returns the pixel of the stored image at the cell
\* the rounded, center-offset point maps to, and absent only when that cell
\* is outside the stored image or holds the transparent key; so every
\* non-key pixel of the stored image, row 0 and column 0 included, is
\* returned for the point that maps to it.
C4_SampleReturnsEveryStoredPixel ==
    (focus.kind = "ok" /\ uv.some) =>
        LET c == SampledCell
            inside == c \in Cells(focus.image.w, focus.image.h)
        IN sampled = IF inside /\ focus.image.px[c] # DEFAULT_KEY
                     THEN Some(focus.image.px[c])
                     ELSE None

----------------------------------------------------------------------------
(* The reconstruction machine: the caller pushes Prisms, built from        *)
(* silhouette sprites and cameras, and calls build_model.                  *)

\* Most views handed to build_model.
MaxViews == 2

Green == <<0, 255, 0, 255>>

\* A sprite of a filled square of half-width r: transparent but for its
\* two focus markers and the pixels that the points (x, y), |x| <= r and
\* |y| <= r, of the stored image map to.
SilhouetteSource(r, color) ==
    LET n == 2 * r + 4
        c == r + 2
    IN [w |-> n, h |-> n,
        px |-> [q \in Cells(n, n) |->
                  IF q = <<c, 0>> \/ q = <<0, c>> THEN Black
                  ELSE IF /\ Abs(q[1] - 1 - c) <= r
                          /\ Abs(q[2] - 1 - c) <= r
                       THEN color
                  ELSE DEFAULT_KEY]]

\* The views the caller chooses from: a camera and the color its sprite
\* is drawn in.  Two cameras of main, and two made from a Mat4 of the
\* caller's own.
ViewInputs ==
    {[camera |-> Mat4From("ObliqueNorth", OB_MAIN), color |-> Red],
     [camera |-> Mat4From("ObliqueWest", OB_MAIN), color |-> Green],
     [camera |-> Identity, color |-> Red],
     [camera |-> MirrorZ, color |-> Green]}

\* Each sprite is a single pixel or a square as wide as the scanned cube.
PrismInputs ==
    {PrismNew(TryFrom(SilhouetteSource(r, v.color)), v.camera) :
        r \in {0, ScanN}, v \in ViewInputs}

IdleFocus ==
    /\ source = [w |-> 0, h |-> 0, fill |-> DEFAULT_KEY, px |-> <<>>]
    /\ focus = NoFocus
    /\ uv = None
    /\ sampled = None

InitRecon == IdleFocus /\ IdleRecon /\ IdleVox /\ IdleLib

\* views.push(Prism::new(image, camera)?)
PushView ==
    /\ built.kind = "none"
    /\ Len(views) < MaxViews
    /\ \E prism \in PrismInputs : views' = Append(views, prism)
    /\ UNCHANGED <<built, notRecon>>

\* build_model(&views)
Build ==
    /\ built.kind = "none"
    /\ LET hits == Hits(views)
       IN \E nanSigns \in [1 .. Len(views) -> {0, 1}] :
             built' = BuildModel(views, hits, nanSigns)
    /\ UNCHANGED <<views, notRecon>>

NextRecon == PushView \/ Build

SpecRecon == InitRecon /\ [][NextRecon]_vars

\* C1: the key set of the map build_model returns for a non-empty list of
\* Prisms is exactly the set of positions of the scanned cube at which every
\* Prism's sample is present.
C1_KeysAreTheAllViewPositions ==
    built.kind # "none" =>
        /\ built.kind = "ok" <=> Len(views) > 0
        /\ built.kind = "ok" =>
              DOMAIN built.map =
                  {pos \in Cube(ScanN) :
                      \A i \in 1 .. Len(views) : PrismSample(views[i], pos).some}

\* Two views gave a map that holds a position with no exposed face, and
\* leaves out a position that one view samples and the other does not.
C1_Witness ==
    /\ built.kind = "ok"
    /\ Len(views) = 2
    /\ \E pos \in DOMAIN built.map :
          \A i \in 1 .. Len(Faces) : VAdd(pos, Faces[i]) \in DOMAIN built.map
    /\ \E pos \in Cube(ScanN) \ DOMAIN built.map :
          /\ PrismSample(views[1], pos).some
          /\ ~PrismSample(views[2], pos).some

\* The exact order of the dot products of the view normals a and b with
\* one normalized normal n: their common positive factor 1 / sqrt(n.k)
\* does not change it.
DotValue(m, n) == m[1] * n.dir[1] + m[2] * n.dir[2] + m[3] * n.dir[3]

\* The surface normal build_model estimates at an accepted position.
EstimatedNormal(pos) == Normalize(ExposedSum(DOMAIN built.map, pos, 1))

\* The earliest view whose normal has the largest dot product with n.
BestView(n) ==
    CHOOSE i \in 1 .. Len(views) :
        /\ \A j \in 1 .. Len(views) :
              DotValue(PrismNormal(views[j]), n) <= DotValue(PrismNormal(views[i]), n)
        /\ \A j \in 1 .. i - 1 :
              DotValue(PrismNormal(views[j]), n) < DotValue(PrismNormal(views[i]), n)

\* C2: every accepted position (with an exposed face, so that its normal is
\* defined) gets the color of the candidate whose view normal has the
\* largest dot product with the estimated normal, the earliest view winning
\* a tie, also when some dot products are negative.
C2_ColorOfLargestDotProduct ==
    built.kind = "ok" =>
        \A pos \in DOMAIN built.map :
            LET n == EstimatedNormal(pos)
            IN ~n.nan =>
                 built.map[pos] = PrismSample(views[BestView(n)], pos).val

----------------------------------------------------------------------------
(* to_vox (main.rs) *)

\* The colors a palette holds: assert!(i < 256), and the range of the u8
\* color index.
PALETTE_LEN == 256

\* The radius of the cube build_model's keys lie in: const N.
N == 64

\* usize as u8
AsU8(n) == n % PALETTE_LEN

\* i32 as i8
AsI8(n) == ((n + 128) % 256) - 128

\* IVec3::min and IVec3::max
VMin(a, b) == <<Min(a[1], b[1]), Min(a[2], b[2]), Min(a[3], b[3])>>

VMax(a, b) == <<Max(a[1], b[1]), Max(a[2], b[2]), Max(a[3], b[3])>>

\* model.keys().copied().reduce(|a, b| a.min(b)).unwrap() over the entries
\* lo..hi, and with max.  The range is halved rather than walked so that
\* the evaluation stays shallow; min and max are associative.
RECURSIVE ReduceMin(_, _, _)
ReduceMin(entries, lo, hi) ==
    IF lo = hi THEN entries[lo].pos
    ELSE LET mid == (lo + hi) \div 2
         IN VMin(ReduceMin(entries, lo, mid), ReduceMin(entries, mid + 1, hi))

RECURSIVE ReduceMax(_, _, _)
ReduceMax(entries, lo, hi) ==
    IF lo = hi THEN entries[lo].pos
    ELSE LET mid == (lo + hi) \div 2
         IN VMax(ReduceMax(entries, lo, mid), ReduceMax(entries, mid + 1, hi))

\* palette.iter().position(|&c| c == color)
PositionNever(palette, color) == None

Position(palette, color) ==
    LET at == {i \in 1 .. Len(palette) : palette[i] = color}
    IN IF at = {} THEN None
       ELSE Some((CHOOSE i \in at : \A j \in at : i <= j) - 1)

\* One turn of the loop of to_vox, for the i-th entry: st holds the palette
\* and the voxels so far.
ToVoxStep(entries, i, min, st) ==
    LET color == entries[i].color
        found == Position(st.palette, color)
        palette2 == IF found.some THEN st.palette
                                  ELSE Append(st.palette, color)
        color_index == AsU8(IF found.some THEN found.val
                                          ELSE Len(palette2) - 1)
        pos == VSub(entries[i].pos, min)
        voxel == [point |-> <<AsI8(pos[1]), AsI8(pos[2]), AsI8(pos[3])>>,
                  color_index |-> color_index]
    IN [palette |-> palette2, voxels |-> Append(st.voxels, voxel)]

\* The loop of to_vox over the entries lo..hi, in order, from the state st.
\* The range is halved rather than walked so that the evaluation stays
\* shallow; the turns still run in the order lo, lo + 1, ..., hi.  (The
\* test of left makes the left half be evaluated before the right half
\* starts; it is always true.)
RECURSIVE ToVoxLoop(_, _, _, _, _)
ToVoxLoop(entries, lo, hi, min, st) ==
    IF lo = hi THEN ToVoxStep(entries, lo, min, st)
    ELSE LET mid == (lo + hi) \div 2
             left == ToVoxLoop(entries, lo, mid, min, st)
         IN IF Len(left.voxels) = mid
            THEN ToVoxLoop(entries, mid + 1, hi, min, left)
            ELSE left

\* to_vox.  The result holds the model's size and voxels and the entries
\* of ret.palette.colors that the last loop wrote.
ToVox(entries) ==
    IF Len(entries) = 0 THEN [kind |-> "panic", msg |-> "unwrap on None"]
    ELSE
      LET min == ReduceMin(entries, 1, Len(entries))
          max == ReduceMax(entries, 1, Len(entries))
          size == VAdd(VSub(max, min), <<1, 1, 1>>)
          done == ToVoxLoop(entries, 1, Len(entries), min,
                            [palette |-> <<>>, voxels |-> <<>>])
      IN IF Len(done.palette) > PALETTE_LEN
         THEN [kind |-> "panic", msg |-> "assertion failed: i < 256"]
         ELSE [kind |-> "ok", size |-> size, voxels |-> done.voxels,
               palette |-> done.palette]

----------------------------------------------------------------------------
(* The serialization machine: the caller fills a map and calls to_vox.     *)

\* The keys the caller inserts one by one.
KeyInputs == {<<-N, 0, 0>>, <<N, 0, 0>>, <<0, 1, -1>>}

\* A map of n voxels of pairwise distinct colors, (k, 0, 0, 255) for k < n,
\* laid out in rows of 16 at z = 1.
Spectrum(n) ==
    [k \in 1 .. n |-> [pos |-> <<(k - 1) % 16, (k - 1) \div 16, 1>>,
                       color |-> <<k - 1, 0, 0, 255>>]]

Keys(entries) == {entries[i].pos : i \in 1 .. Len(entries)}

Colors(entries) == {entries[i].color : i \in 1 .. Len(entries)}

InitVox ==
    /\ IdleFocus /\ IdleRecon /\ IdleLib
    /\ voxmap \in {<<>>, Spectrum(PALETTE_LEN - 1)}
    /\ vox = [kind |-> "none"]

\* model.insert(pos, color) of a new key, which the map iterates last.
Insert ==
    /\ vox.kind = "none"
    /\ \E pos \in KeyInputs \ Keys(voxmap), color \in {Red, Green} :
          voxmap' = Append(voxmap, [pos |-> pos, color |-> color])
    /\ UNCHANGED <<vox, notVox>>

\* to_vox(&model)
Serialize ==
    /\ vox.kind = "none"
    /\ vox' = ToVox(voxmap)
    /\ UNCHANGED <<voxmap, notVox>>

NextVox == Insert \/ Serialize

SpecVox == InitVox /\ [][NextVox]_vars

\* C7: each voxel to_vox emits for a map with keys in the cube [-64, 64]^3
\* has its key minus the componentwise minimum of the keys as coordinates,
\* which are therefore >= 0 and below the emitted size on every axis.
C7_VoxelsRebasedWithoutWrap ==
    vox.kind = "ok" =>
        LET Least(a) == CHOOSE x \in {k[a] : k \in Keys(voxmap)} :
                            \A k \in Keys(voxmap) : x <= k[a]
            lo == <<Least(1), Least(2), Least(3)>>
        IN /\ Len(vox.voxels) = Len(voxmap)
           /\ \A i \in 1 .. Len(voxmap) :
                 /\ vox.voxels[i].point = VSub(voxmap[i].pos, lo)
                 /\ \A a \in 1 .. 3 :
                       /\ vox.voxels[i].point[a] >= 0
                       /\ vox.voxels[i].point[a] < vox.size[a]

\* The index in the iteration order at which a color is first seen.
FirstSeen(entries, color) ==
    LET at == {i \in 1 .. Len(entries) : entries[i].color = color}
    IN CHOOSE i \in at : \A j \in at : i <= j

\* C8: to_vox builds a duplicate-free palette in first-seen order and gives
\* every voxel the index of the palette entry that equals its own color;
\* with more than 256 distinct colors it fails instead of returning.
C8_PaletteIndexesOrFailure ==
    vox.kind # "none" =>
        /\ Cardinality(Colors(voxmap)) > PALETTE_LEN => vox.kind = "panic"
        /\ vox.kind = "ok" =>
              /\ {vox.palette[i] : i \in 1 .. Len(vox.palette)} = Colors(voxmap)
              /\ Cardinality(Colors(voxmap)) = Len(vox.palette)
              /\ \A i \in 1 .. Len(vox.palette) - 1 :
                    FirstSeen(voxmap, vox.palette[i])
                      < FirstSeen(voxmap, vox.palette[i + 1])
              /\ \A i \in 1 .. Len(voxmap) :
                    /\ vox.voxels[i].color_index \in 0 .. Len(vox.palette) - 1
                    /\ vox.palette[vox.voxels[i].color_index + 1]
                         = voxmap[i].color

\* to_vox returned a palette of 256 colors in which a color seen twice
\* shares one index.
C8_Witness ==
    /\ vox.kind = "ok"
    /\ Len(vox.palette) = PALETTE_LEN
    /\ \E i, j \in 1 .. Len(voxmap) :
          i # j /\ vox.voxels[i].color_index = vox.voxels[j].color_index

----------------------------------------------------------------------------
(* trace (lib.rs) *)

\* Vec3::length_squared, in units of 1 / ONE^2
LengthSquared(v) == v[1] * v[1] + v[2] * v[2] + v[3] * v[3]

\* dir.abs().max_element()
MaxElementAbs(v) == Max(Abs(v[1]), Max(Abs(v[2]), Abs(v[3])))

\* Vec3::round
VRound(v) == <<Round(v[1]), Round(v[2]), Round(v[3])>>

\* trace(origin, dir): the assertion, and the direction with its longest
\* axis normalized to unit length.  The iterator starts at origin.
TraceNew(origin, dir) ==
    IF ~(LengthSquared(dir) > (ONE * ONE) \div 100000)
    THEN [kind |-> "panic", msg |-> "Direction vector must be non-zero"]
    ELSE LET scale == (ONE * ONE) \div MaxElementAbs(dir)
         IN [kind |-> "run",
             pos |-> origin,
             dir |-> <<(scale * dir[1]) \div ONE, (scale * dir[2]) \div ONE,
                       (scale * dir[3]) \div ONE>>]

\* One call of the closure given to from_fn: the cell yielded and the
\* iterator afterwards.
TraceNext(it) ==
    [cell |-> VRound(it.pos),
     it |-> [it EXCEPT !.pos = VAdd(it.pos, it.dir)]]

\* The n-th cell (from 0) of trace(origin, dir): every step adds dir, and
\* the multiples of dir used here are exact in f32.
TraceCell(it, n) == VRound(VAdd(it.pos, VScale(it.dir, n)))

----------------------------------------------------------------------------
(* The ray machine: the caller calls trace and pulls cells from it.        *)

MaxOriginHalf == 1

MaxSteps == 3

\* Origins on the half-unit grid.
OriginInputs ==
    LET H == {k * (ONE \div 2) : k \in -MaxOriginHalf .. MaxOriginHalf}
    IN H \X H \X H

\* Directions whose longest component is 0, 1 or 2, so that the scale
\* 1.0 / max_element and the scaled direction are exact in f32.
DirInputs ==
    LET D == {k * ONE : k \in -2 .. 2}
    IN D \X D \X D

InitTrace == IdleFocus /\ IdleRecon /\ IdleVox /\ IdleLib

\* trace(origin, dir)
Trace ==
    /\ ray.kind = "none"
    /\ \E origin \in OriginInputs, dir \in DirInputs :
          ray' = TraceNew(origin, dir)
    /\ UNCHANGED <<cells, notTrace>>

\* Iterator::next on the result
NextCell ==
    /\ ray.kind = "run"
    /\ Len(cells) < MaxSteps
    /\ LET step == TraceNext(ray)
       IN /\ cells' = Append(cells, step.cell)
          /\ ray' = step.it
    /\ UNCHANGED notTrace

NextTrace == Trace \/ NextCell

SpecTrace == InitTrace /\ [][NextTrace]_vars

\* C5: the cells trace yields form a connected line: two consecutive cells
\* differ by at most one unit on each axis, for origins with fractional
\* coordinates as well as integer ones.
C5_TraceIsConnected ==
    \A i \in 1 .. Len(cells) - 1 : \A a \in 1 .. 3 :
        Abs(cells[i + 1][a] - cells[i][a]) <= 1

----------------------------------------------------------------------------
(* impl Body for dot_vox::Model (lib.rs) *)

\* A dot_vox::Model is [size, voxels]: size is a triple of u32 and voxels a
\* sequence of [x, y, z, i] with u8 fields.

U8_MAX == 255

\* f32 as u32 and f32 as u8 of a finite value: truncation toward zero,
\* saturating at the ends of the target type (no input of the model
\* reaches the upper end of u32).
AsU32Sat(v) == IF v < 0 THEN 0 ELSE v \div ONE

AsU8Sat(v) == IF v < 0 THEN 0 ELSE Min(v \div ONE, U8_MAX)

\* Vec3::min_element
MinElement(v) == Min(v[1], Min(v[2], v[3]))

\* voxels.iter().find_map(|voxel| (voxel.x == x && ...).then_some(voxel.i))
FindVoxelLast(voxels, x, y, z) ==
    LET at == {k \in 1 .. Len(voxels) :
                  voxels[k].x = x /\ voxels[k].y = y /\ voxels[k].z = z}
    IN IF at = {} THEN None
       ELSE Some(voxels[CHOOSE k \in at : \A j \in at : j <= k].i)

FindVoxel(voxels, x, y, z) ==
    LET at == {k \in 1 .. Len(voxels) :
                  voxels[k].x = x /\ voxels[k].y = y /\ voxels[k].z = z}
    IN IF at = {} THEN None
       ELSE Some(voxels[CHOOSE k \in at : \A j \in at : k <= j].i)

\* Model::sample of a finite position in fixed point
ModelSample(m, pos) ==
    IF MinElement(pos) < 0 THEN None
    ELSE IF \/ AsU32Sat(pos[1]) >= m.size[1]
            \/ AsU32Sat(pos[2]) >= m.size[2]
            \/ AsU32Sat(pos[3]) >= m.size[3]
         THEN None
         ELSE FindVoxel(m.voxels, AsU8Sat(pos[1]), AsU8Sat(pos[2]),
                        AsU8Sat(pos[3]))

\* Model::bounding_box of a model with at least one voxel: the fold of
\* Vec3::min and Vec3::max over the voxels, as whole numbers.
ModelBoundingBox(m) ==
    LET xs == {m.voxels[k].x : k \in 1 .. Len(m.voxels)}
        ys == {m.voxels[k].y : k \in 1 .. Len(m.voxels)}
        zs == {m.voxels[k].z : k \in 1 .. Len(m.voxels)}
        Lo(S) == CHOOSE a \in S : \A b \in S : a <= b
        Hi(S) == CHOOSE a \in S : \A b \in S : b <= a
    IN [min |-> <<Lo(xs), Lo(ys), Lo(zs)>>,
        max |-> <<Hi(xs), Hi(ys), Hi(zs)>>]

----------------------------------------------------------------------------
(* BoundingBox and build_view (lib.rs) *)

\* The oblique unit of the cameras of lib.rs: OB = 0.5.
OB_LIB == 5000

\* f32::floor and f32::ceil, to a whole number
Floor(v) == v \div ONE

Ceil(v) == -((-v) \div ONE)

\* The product of two fixed-point values.
Mul(a, b) == (a * b) \div ONE

Cross(a, b) == <<Mul(a[2], b[3]) - Mul(a[3], b[2]),
                 Mul(a[3], b[1]) - Mul(a[1], b[3]),
                 Mul(a[1], b[2]) - Mul(a[2], b[1])>>

\* Mat4::inverse of an affine matrix whose translation is a vector of whole
\* numbers: the rows of the inverse of the 3x3 part are the cross products
\* of its columns over the determinant, and the translation of the inverse
\* is minus their products with the translation.
Inverse(m) ==
    LET c1 == m.x_axis
        c2 == m.y_axis
        c3 == m.z_axis
        k1 == Cross(c2, c3)
        det == Mul(c1[1], k1[1]) + Mul(c1[2], k1[2]) + Mul(c1[3], k1[3])
        Row(k) == <<(k[1] * ONE) \div det, (k[2] * ONE) \div det,
                    (k[3] * ONE) \div det>>
        r1 == Row(k1)
        r2 == Row(Cross(c3, c1))
        r3 == Row(Cross(c1, c2))
        t == <<m.w_axis[1] \div ONE, m.w_axis[2] \div ONE,
               m.w_axis[3] \div ONE>>
        Back(r) == -(r[1] * t[1] + r[2] * t[2] + r[3] * t[3])
    IN [x_axis |-> <<r1[1], r2[1], r3[1]>>,
        y_axis |-> <<r1[2], r2[2], r3[2]>>,
        z_axis |-> <<r1[3], r2[3], r3[3]>>,
        w_axis |-> <<Back(r1), Back(r2), Back(r3)>>]

\* BoundingBox::corners: the eight corners, by the three bits of 0..7.
Corners(aabb) ==
    LET dim == VSub(aabb.max, aabb.min)
    IN {VAdd(aabb.min, <<dim[1] * bx, dim[2] * by, dim[3] * bz>>) :
           bx \in {0, 1}, by \in {0, 1}, bz \in {0, 1}}

\* BoundingBox::screen_bounds: origin and size of the screen-space box.
ScreenBounds(aabb, camera) ==
    LET ps == {TransformPoint3(camera, p) : p \in Corners(aabb)}
        Lo(a) == CHOOSE v \in {p[a] : p \in ps} : \A p \in ps : v <= p[a]
        Hi(a) == CHOOSE v \in {p[a] : p \in ps} : \A p \in ps : p[a] <= v
    IN [origin |-> <<Floor(Lo(1)), Floor(Lo(2))>>,
        size |-> <<Ceil(Hi(1) - Lo(1)), Ceil(Hi(2) - Lo(2))>>]

\* How far build_view raytraces until it bails out.
TRACE_LIMIT == 256

\* The ray build_view casts for the pixel (x, y) of a view of the given
\* origin and size: the iterator trace returns for it.
PixelRay(camera, origin, size, x, y) ==
    LET fy == size[2] - y - 1
        pos == <<x + origin[1], fy + origin[2], 0>>
        inv == Inverse(camera)
    IN TraceNew(TransformPoint3(inv, pos),
                TransformVector3(inv, <<0, 0, -1>>))

\* find_map(|cell| model.sample(cell).map(|val| (cell, val))) over the
\* items lo..hi (from 0) of the ray, in order.  The range is halved rather
\* than walked so that the evaluation stays shallow.
RECURSIVE FindMapLast(_, _, _, _)
FindMapLast(m, it, lo, hi) ==
    IF lo = hi
    THEN LET cell == TraceCell(it, lo)
             val == ModelSample(m, VScale(cell, ONE))
         IN IF val.some THEN Some([cell |-> cell, val |-> val.val]) ELSE None
    ELSE LET mid == (lo + hi) \div 2
             right == FindMapLast(m, it, mid + 1, hi)
         IN IF right.some THEN right ELSE FindMapLast(m, it, lo, mid)

RECURSIVE FindMap(_, _, _, _)
FindMap(m, it, lo, hi) ==
    IF lo = hi
    THEN LET cell == TraceCell(it, lo)
             val == ModelSample(m, VScale(cell, ONE))
         IN IF val.some THEN Some([cell |-> cell, val |-> val.val]) ELSE None
    ELSE LET mid == (lo + hi) \div 2
             left == FindMap(m, it, lo, mid)
         IN IF left.some THEN left ELSE FindMap(m, it, mid + 1, hi)

\* build_view of a voxel model: the map from view positions to results.
BuildView(m, camera) ==
    LET sb == ScreenBounds(ModelBoundingBox(m), camera)
        pixels == (0 .. sb.size[1] - 1) \X (0 .. sb.size[2] - 1)
        Result(p) == FindMap(m, PixelRay(camera, sb.origin, sb.size,
                                          p[1], p[2]),
                             0, TRACE_LIMIT - 1)
        hit == {p \in pixels : Result(p).some}
    IN [p \in hit |-> Result(p).val]

----------------------------------------------------------------------------
(* The view machine: the caller hands a voxel model and a camera to        *)
(* build_view.                                                             *)

\* The voxels a model of the machine is made of: two stacked at the
\* origin, and others spread over the x-y plane and over z.
VoxelInputs ==
    <<[x |-> 0, y |-> 0, z |-> 0, i |-> 1],
      [x |-> 0, y |-> 0, z |-> 1, i |-> 2],
      [x |-> 1, y |-> 1, z |-> 0, i |-> 3],
      [x |-> 2, y |-> 2, z |-> 1, i |-> 4],
      [x |-> 2, y |-> 0, z |-> 0, i |-> 5]>>

\* The models with at least one of these voxels, in this order.
RECURSIVE Pick(_, _)
Pick(keep, k) ==
    IF k > Len(VoxelInputs) THEN <<>>
    ELSE (IF k \in keep THEN <<VoxelInputs[k]>> ELSE <<>>)
         \o Pick(keep, k + 1)

ModelInputs ==
    {[size |-> <<3, 3, 2>>, voxels |-> Pick(keep, 1)] :
        keep \in (SUBSET (1 .. Len(VoxelInputs))) \ {{}}}

\* The cameras: the identity and the oblique camera of lib.rs, each moved
\* along z so that the screen plane lies h cells above the model's floor.
LiftInputs == {0, 1, 2, TRACE_LIMIT - 1, TRACE_LIMIT, TRACE_LIMIT + 1}

CameraInputs ==
    {[base EXCEPT !.w_axis = <<0, 0, -h * ONE>>] :
        base \in {Identity, Mat4From("ObliqueNorth", OB_LIB)},
        h \in LiftInputs}

InitView ==
    /\ IdleFocus /\ IdleRecon /\ IdleVox
    /\ IdleTrace /\ IdleBody /\ IdleRect /\ IdleOutline /\ IdleEdit
    /\ scene = [kind |-> "none"]
    /\ view = [kind |-> "none"]

\* The caller loads a model and picks a camera.
Load ==
    /\ scene.kind = "none"
    /\ \E m \in ModelInputs, camera \in CameraInputs :
          scene' = [kind |-> "set", model |-> m, camera |-> camera]
    /\ UNCHANGED <<view, notView>>

\* build_view(&model, &camera)
Render ==
    /\ scene.kind = "set"
    /\ view.kind = "none"
    /\ view' = [kind |-> "ok", map |-> BuildView(scene.model, scene.camera)]
    /\ UNCHANGED <<scene, notView>>

NextView == Load \/ Render

SpecView == InitView /\ [][NextView]_vars

\* The pixels of the screen-space envelope of the scene.
Envelope ==
    LET sb == ScreenBounds(ModelBoundingBox(scene.model), scene.camera)
    IN (0 .. sb.size[1] - 1) \X (0 .. sb.size[2] - 1)

\* The ray of pixel p of the scene.
RayOf(p) ==
    LET sb == ScreenBounds(ModelBoundingBox(scene.model), scene.camera)
    IN PixelRay(scene.camera, sb.origin, sb.size, p[1], p[2])

\* The indexes, among the first 256 cells of the ray of pixel p, of the
\* cells whose sample is present.
HitsOf(p) ==
    LET it == RayOf(p)
    IN {n \in 0 .. 255 :
           ModelSample(scene.model, VScale(TraceCell(it, n), ONE)).some}

\* C6: build_view's result has an entry for a pixel of the envelope iff one
\* of the first 256 cells of the pixel's ray has a present sample, and the
\* entry is the earliest such cell with the value sampled there; pixels
\* without a hit within 256 steps have no entry.
C6_ViewHoldsEarliestHitWithinLimit ==
    view.kind = "ok" =>
        /\ DOMAIN view.map \subseteq Envelope
        /\ \A p \in Envelope :
              LET hits == HitsOf(p)
              IN /\ p \in DOMAIN view.map <=> hits # {}
                 /\ hits # {} =>
                      LET n == CHOOSE k \in hits : \A j \in hits : k <= j
                          cell == TraceCell(RayOf(p), n)
                      IN view.map[p] =
                           [cell |-> cell,
                            val |-> ModelSample(scene.model,
                                                VScale(cell, ONE)).val]

\* build_view returned a view in which one pixel's entry is the last cell
\* the limit allows, another pixel's ray met two voxels, and a third
\* pixel has no entry.
C6_Witness ==
    /\ view.kind = "ok"
    /\ \E p \in DOMAIN view.map : HitsOf(p) = {255}
    /\ \E p \in DOMAIN view.map : Cardinality(HitsOf(p)) >= 2
    /\ \E p \in Envelope : p \notin DOMAIN view.map

----------------------------------------------------------------------------
(* The body machine: the caller loads a voxel model and samples it.        *)

MaxProbeHalf == 4

\* The models: voxels inside the size, two voxels stored at one place, a
\* voxel stored outside the size, sizes at and beyond the range of the u8
\* coordinates, and the empty model.
BodyInputs ==
    {[size |-> <<2, 2, 2>>,
      voxels |-> <<[x |-> 0, y |-> 0, z |-> 0, i |-> 1],
                   [x |-> 1, y |-> 0, z |-> 1, i |-> 2]>>],
     [size |-> <<2, 2, 2>>,
      voxels |-> <<[x |-> 0, y |-> 1, z |-> 0, i |-> 1],
                   [x |-> 0, y |-> 1, z |-> 0, i |-> 7]>>],
     [size |-> <<1, 2, 1>>,
      voxels |-> <<[x |-> 0, y |-> 1, z |-> 0, i |-> 3],
                   [x |-> 1, y |-> 1, z |-> 0, i |-> 4]>>],
     [size |-> <<U8_MAX + 1, 1, 1>>,
      voxels |-> <<[x |-> U8_MAX, y |-> 0, z |-> 0, i |-> 5]>>],
     [size |-> <<U8_MAX + 45, 1, 1>>,
      voxels |-> <<[x |-> U8_MAX, y |-> 0, z |-> 0, i |-> 9]>>],
     [size |-> <<0, 0, 0>>, voxels |-> <<>>]}

\* The positions sampled: the half-unit grid around the origin, and whole
\* numbers around the end of the u8 range.
ProbeInputs ==
    LET C == {k * (ONE \div 2) : k \in -2 .. MaxProbeHalf}
             \cup {k * ONE : k \in {U8_MAX, U8_MAX + 1, U8_MAX + 5}}
    IN C \X C \X C

InitBody ==
    /\ IdleFocus /\ IdleRecon /\ IdleVox
    /\ IdleTrace /\ IdleView /\ IdleRect /\ IdleOutline /\ IdleEdit
    /\ body \in BodyInputs
    /\ probe = None
    /\ got = None

\* model.sample(pos), once
SampleModel ==
    /\ ~probe.some
    /\ \E pos \in ProbeInputs :
          /\ probe' = Some(pos)
          /\ got' = ModelSample(body, pos)
    /\ UNCHANGED <<body, notBody>>

NextBody == SampleModel

SpecBody == InitBody /\ [][NextBody]_vars

\* f32 truncation toward zero, to a whole number
Trunc(v) == IF v >= 0 THEN v \div ONE ELSE -((-v) \div ONE)

\* The places of body.voxels that hold a voxel at the coordinates c.
StoredAt(c) ==
    {k \in 1 .. Len(body.voxels) :
        /\ body.voxels[k].x = c[1]
        /\ body.voxels[k].y = c[2]
        /\ body.voxels[k].z = c[3]}

\* C10, as stated: sample returns the index of the voxel at the truncated
\* coordinates of pos whenever these are in [0, size) on every axis and a
\* voxel is stored there, and absent for every other pos.
C10_SampleOfTruncatedPosition ==
    probe.some =>
        LET c == <<Trunc(probe.val[1]), Trunc(probe.val[2]),
                   Trunc(probe.val[3])>>
        IN IF /\ \A a \in 1 .. 3 : 0 <= c[a] /\ c[a] < body.size[a]
              /\ StoredAt(c) # {}
           THEN got.some /\ \E k \in StoredAt(c) : got.val = body.voxels[k].i
           ELSE got = None

\* C10, amended: sample returns the index of the first voxel stored at the
\* truncated coordinates of pos, each taken as 255 when it is larger,
\* whenever no component of pos is negative, the truncated coordinates
\* are below the size on every axis and a voxel is stored there; it
\* returns absent for every other pos.
C10_SampleOfNonNegativePosition ==
    probe.some =>
        LET c == <<Trunc(probe.val[1]), Trunc(probe.val[2]),
                   Trunc(probe.val[3])>>
            capped == <<Min(c[1], 255), Min(c[2], 255), Min(c[3], 255)>>
        IN IF /\ \A a \in 1 .. 3 : probe.val[a] >= 0 /\ c[a] < body.size[a]
              /\ StoredAt(capped) # {}
           THEN got = Some(body.voxels[
                    CHOOSE k \in StoredAt(capped) :
                        \A j \in StoredAt(capped) : k <= j].i)
           ELSE got = None

\* sample returned the first of two voxels stored at one place, for a
\* position with a fractional coordinate.
C10_Witness ==
    /\ probe.some
    /\ got.some
    /\ \E a \in 1 .. 3 : probe.val[a] % ONE # 0
    /\ Cardinality(StoredAt(<<Trunc(probe.val[1]), Trunc(probe.val[2]),
                              Trunc(probe.val[3])>>)) = 2

----------------------------------------------------------------------------
(* Rect (lib.rs) *)

\* The f32 values of Rect are modelled exactly: [m, e] stands for m * 2^e,
\* with m odd and below 2^24, or m = e = 0 for 0.0.

\* The bits of the significand of an f32.
MANTISSA_DIGITS == 24

RECURSIVE Pow2(_)
Pow2(k) == IF k = 0 THEN 1 ELSE 2 * Pow2(k - 1)

\* The number of bits of n > 0.
RECURSIVE BitLen(_)
BitLen(n) == IF n = 0 THEN 0 ELSE 1 + BitLen(n \div 2)

\* m * 2^e in the form with m odd.
RECURSIVE Canon(_, _)
Canon(m, e) ==
    IF m = 0 THEN [m |-> 0, e |-> 0]
    ELSE IF m % 2 = 0 THEN Canon(m \div 2, e + 1)
    ELSE [m |-> m, e |-> e]

\* The f32 nearest to p * 2^e (plus a nonzero tail below the last bit of
\* p when sticky), ties to even.
RoundF32(p, e, sticky) ==
    LET s == Max(0, BitLen(p) - MANTISSA_DIGITS)
    IN IF s = 0 THEN Canon(p, e)
       ELSE LET q == p \div Pow2(s)
                rem == p % Pow2(s)
                half == Pow2(s - 1)
                up == \/ rem > half
                      \/ rem = half /\ (sticky \/ q % 2 = 1)
            IN Canon(IF up THEN q + 1 ELSE q, e + s)

\* i32 as f32, for n >= 0
AsF32(n) == RoundF32(n, 0, FALSE)

\* The quotient q, the remainder r and the count k of the binary digits
\* after the point, of the long division by y, carried on until the
\* division ends or q has 25 bits.
RECURSIVE DivBits(_, _, _, _)
DivBits(q, r, y, k) ==
    IF r = 0 \/ q >= Pow2(MANTISSA_DIGITS) THEN [q |-> q, r |-> r, k |-> k]
    ELSE IF 2 * r >= y THEN DivBits(2 * q + 1, 2 * r - y, y, k + 1)
    ELSE DivBits(2 * q, 2 * r, y, k + 1)

\* a / b in f32, for a >= 0 and b > 0
DivF32(a, b) ==
    LET d == DivBits(a.m \div b.m, a.m % b.m, b.m, 0)
    IN RoundF32(d.q, a.e - b.e - d.k, d.r # 0)

\* a * b in f32, for operands the product of whose odd parts is below
\* 2^31.
MulF32(a, b) == RoundF32(a.m * b.m, a.e + b.e, FALSE)

\* f32::floor and as_ivec2, for a >= 0 below 2^31
FloorF32(a) ==
    IF a.e >= 0 THEN a.m * Pow2(a.e)
    ELSE IF -a.e >= MANTISSA_DIGITS THEN 0
    ELSE a.m \div Pow2(-a.e)

\* a < 1.0, for a >= 0
BelowOne(a) ==
    \/ a.m = 0
    \/ a.e < 0 /\ (-a.e >= MANTISSA_DIGITS \/ a.m < Pow2(-a.e))

\* Rect::new
RectNew(min, max) == [min |-> min, max |-> max]

\* Rect::normalize
RectNormalize(r, pos) ==
    LET size == <<r.max[1] - r.min[1], r.max[2] - r.min[2]>>
        p == <<pos[1] - r.min[1], pos[2] - r.min[2]>>
    IN <<DivF32(AsF32(p[1]), AsF32(size[1])),
         DivF32(AsF32(p[2]), AsF32(size[2]))>>

\* Rect::denormalize
RectDenormalize(r, v) ==
    LET size == <<r.max[1] - r.min[1], r.max[2] - r.min[2]>>
        p == <<MulF32(v[1], AsF32(size[1])), MulF32(v[2], AsF32(size[2]))>>
    IN <<r.min[1] + FloorF32(p[1]), r.min[2] + FloorF32(p[2])>>

----------------------------------------------------------------------------
(* The rectangle machine: the caller makes a Rect, normalizes a point of   *)
(* it and denormalizes the result or the zero vector.                      *)

MaxExtent == 3

\* 0.0
Zero == [m |-> 0, e |-> 0]

\* The [min, max) intervals of an axis: short ones at two origins, the one
\* of the test rect_normalization, and two whose extent an f32 does not
\* hold exactly.
AxisInputs ==
    {<<lo, lo + n>> : lo \in {-1, 10}, n \in 1 .. MaxExtent}
    \cup {<<10, 30>>, <<0, Pow2(25) + 1>>, <<0, Pow2(27)>>}

\* The points of an interval that are normalized: all of a short one, and
\* the ends and two inner points of a long one.
PointsOf(iv) ==
    IF iv[2] - iv[1] < Pow2(MANTISSA_DIGITS) THEN iv[1] .. iv[2] - 1
    ELSE {iv[1], Pow2(25), Pow2(26) + 5, iv[2] - 1} \cap (iv[1] .. iv[2] - 1)

InitRect ==
    /\ IdleFocus /\ IdleRecon /\ IdleVox
    /\ IdleTrace /\ IdleBody /\ IdleView /\ IdleOutline /\ IdleEdit
    /\ \E ix \in AxisInputs, iy \in AxisInputs :
          rect = RectNew(<<ix[1], iy[1]>>, <<ix[2], iy[2]>>)
    /\ point = None
    /\ unit = None
    /\ back = None

\* rect.normalize(pos) of a point inside the rectangle
NormalizePoint ==
    /\ ~point.some
    /\ \E x \in PointsOf(<<rect.min[1], rect.max[1]>>),
          y \in PointsOf(<<rect.min[2], rect.max[2]>>) :
          /\ point' = Some(<<x, y>>)
          /\ unit' = Some(RectNormalize(rect, <<x, y>>))
    /\ UNCHANGED <<rect, back, notRect>>

\* rect.denormalize(uv) of what normalize returned or of (0.0, 0.0)
DenormalizePoint ==
    /\ ~back.some
    /\ \E v \in {<<Zero, Zero>>}
                  \cup (IF unit.some THEN {unit.val} ELSE {}) :
          back' = Some([uv |-> v, pos |-> RectDenormalize(rect, v)])
    /\ UNCHANGED <<rect, point, unit, notRect>>

NextRect == NormalizePoint \/ DenormalizePoint

SpecRect == InitRect /\ [][NextRect]_vars

\* C9: for a point p of the rectangle, normalize(p) lies in [0, 1) on both
\* axes and denormalize(normalize(p)) differs from p by at most one unit
\* per axis; normalize maps min to (0, 0) and denormalize maps (0, 0) back
\* to min.
C9_NormalizeRoundTrip ==
    /\ unit.some =>
          /\ BelowOne(unit.val[1]) /\ BelowOne(unit.val[2])
          /\ point.val = rect.min => unit.val = <<Zero, Zero>>
    /\ back.some =>
          /\ back.val.uv = <<Zero, Zero>> => back.val.pos = rect.min
          /\ unit.some /\ back.val.uv = unit.val =>
                \A a \in 1 .. 2 : Abs(back.val.pos[a] - point.val[a]) <= 1

----------------------------------------------------------------------------
(* Outline removal: FocusImage::remove_outline (main.rs) and               *)
(* clear_outline (lib.rs)                                                  *)

\* safe_get, of both: the pixel at (x, y), or the key outside the image.
SafeGet(image, key, x, y) ==
    IF x < 0 \/ y < 0 THEN key
    ELSE IF x < image.w /\ y < image.h THEN GetPixel(image, x, y)
    ELSE key

\* The test of the loops' if, at (x, y) of the image as it is.
IsOutline(image, key, outline_color, x, y) ==
    /\ SafeGet(image, key, x, y) = outline_color
    /\ \/ SafeGet(image, key, x - 1, y) = key
       \/ SafeGet(image, key, x + 1, y) = key
       \/ SafeGet(image, key, x, y - 1) = key
       \/ SafeGet(image, key, x, y + 1) = key

\* The loops of both, from the k-th pixel in the order y outer, x inner:
\* every put_pixel changes the image the later tests read.
RECURSIVE OutlineLoop(_, _, _, _)
OutlineLoop(image, key, outline_color, k) ==
    IF k >= image.w * image.h THEN image
    ELSE LET x == k % image.w
             y == k \div image.w
         IN OutlineLoop(IF IsOutline(image, key, outline_color, x, y)
                        THEN PutPixel(image, x, y, key)
                        ELSE image,
                        key, outline_color, k + 1)

\* FocusImage::remove_outline, on self.image
RemoveOutline(image, outline_color) ==
    [kind |-> "ok", by |-> "remove_outline", key |-> DEFAULT_KEY,
     outline_color |-> outline_color,
     image |-> OutlineLoop(image, DEFAULT_KEY, outline_color, 0)]

\* clear_outline: get_pixel(0, 0) panics on an image without pixels.
ClearOutline(image) ==
    IF image.w = 0 \/ image.h = 0
    THEN [kind |-> "panic", msg |-> "Image index out of bounds"]
    ELSE LET color_key == GetPixel(image, 0, 0)
         IN [kind |-> "ok", by |-> "clear_outline", key |-> color_key,
             outline_color |-> Black,
             image |-> OutlineLoop(image, color_key, Black, 0)]

----------------------------------------------------------------------------
(* The outline machine: the caller paints an image and has its outline    *)
(* removed.                                                                *)

MaxSide == 3

MaxInk == 2

InitOutline ==
    /\ IdleFocus /\ IdleRecon /\ IdleVox
    /\ IdleTrace /\ IdleBody /\ IdleView /\ IdleRect /\ IdleEdit
    /\ \E w \in 0 .. MaxSide, h \in 0 .. MaxSide, fill \in Pixels :
          canvas = [w |-> w, h |-> h, fill |-> fill,
                    px |-> [c \in Cells(w, h) |-> fill]]
    /\ cleared = [kind |-> "none"]

\* The caller paints one pixel of the image.
Ink ==
    /\ cleared.kind = "none"
    /\ Cardinality(Painted(canvas)) < MaxInk
    /\ \E c \in Cells(canvas.w, canvas.h), p \in Pixels \ {canvas.fill} :
          /\ canvas.px[c] = canvas.fill
          /\ canvas' = PutPixel(canvas, c[1], c[2], p)
    /\ UNCHANGED <<cleared, notOutline>>

\* image.remove_outline(outline_color)
RemoveOutlineCall ==
    /\ cleared.kind = "none"
    /\ \E outline_color \in {Black, Red} :
          cleared' = RemoveOutline(canvas, outline_color)
    /\ UNCHANGED <<canvas, notOutline>>

\* clear_outline(&mut image)
ClearOutlineCall ==
    /\ cleared.kind = "none"
    /\ cleared' = ClearOutline(canvas)
    /\ UNCHANGED <<canvas, notOutline>>

NextOutline == Ink \/ RemoveOutlineCall \/ ClearOutlineCall

SpecOutline == InitOutline /\ [][NextOutline]_vars

\* C11: the pixels outline removal sets to transparent are exactly the
\* outline-colored pixels that had a 4-neighbour transparent or outside
\* the image before the call; every other pixel is left unchanged.
C11_OnlyTheBorderIsStripped ==
    cleared.kind = "ok" =>
        \A c \in Cells(canvas.w, canvas.h) :
            cleared.image.px[c] =
                IF IsOutline(canvas, cleared.key, cleared.outline_color,
                             c[1], c[2])
                THEN cleared.key
                ELSE canvas.px[c]

----------------------------------------------------------------------------
(* impl DotVoxExt for DotVoxData: set_voxel (lib.rs) *)

\* A DotVoxData is [models, palette]: models a sequence of [voxels], voxels
\* a sequence of [x, y, z, i] with u8 fields, and palette a sequence of
\* colors <<r, g, b, a>>.

\* The key of min_by_key: the sum of the absolute R, G, B differences.
ColorDistance(p, color) ==
    Abs(p[1] - color[1]) + Abs(p[2] - color[2]) + Abs(p[3] - color[3])

\* palette.iter().enumerate().min_by_key(..).map(|(idx, _)| idx): the
\* index (from 0) of the first entry with the smallest key, None for an
\* empty palette.
Closest(palette, color) ==
    IF Len(palette) = 0 THEN None
    ELSE Some((CHOOSE i \in 1 .. Len(palette) :
                  /\ \A j \in 1 .. Len(palette) :
                        ColorDistance(palette[i], color)
                          <= ColorDistance(palette[j], color)
                  /\ \A j \in 1 .. i - 1 :
                        ColorDistance(palette[i], color)
                          < ColorDistance(palette[j], color)) - 1)

\* voxels.iter().position(|v| v.x == x && v.y == y && v.z == z), from 1
VoxelPosition(voxels, x, y, z) ==
    LET at == {k \in 1 .. Len(voxels) :
                  voxels[k].x = x /\ voxels[k].y = y /\ voxels[k].z = z}
    IN IF at = {} THEN None
       ELSE Some(CHOOSE k \in at : \A j \in at : k <= j)

\* set_voxel: the data afterwards, or the panic of unwrap on an empty
\* palette or of models[model_idx] out of range.
SetVoxel(d, model_idx, pos, color) ==
    LET palette_idx == Closest(d.palette, color)
    IN IF ~palette_idx.some
       THEN [kind |-> "panic", msg |-> "unwrap on None"]
       ELSE IF model_idx >= Len(d.models)
       THEN [kind |-> "panic", msg |-> "index out of bounds"]
       ELSE
         LET x == AsU8(pos[1])
             y == AsU8(pos[2])
             z == AsU8(pos[3])
             voxels == d.models[model_idx + 1].voxels
             found == VoxelPosition(voxels, x, y, z)
             pushed == IF found.some THEN voxels
                       ELSE Append(voxels,
                                   [x |-> x, y |-> y, z |-> z,
                                    i |-> AsU8(palette_idx.val)])
             voxel_idx == IF found.some THEN found.val ELSE Len(pushed)
             set == [pushed EXCEPT ![voxel_idx].i = AsU8(palette_idx.val)]
         IN [kind |-> "ok",
             data |-> [d EXCEPT !.models[model_idx + 1].voxels = set]]

----------------------------------------------------------------------------
(* The edit machine: the caller loads a DotVoxData and sets voxels of it.  *)

MaxEdits == 2

\* A red that is nearer to black than to Red.
DarkRed == <<100, 0, 0, 255>>

\* The palettes: empty, two colors, and one color held twice.
PaletteInputs == {<<>>, <<Black, Red>>, <<Red, Green, Red>>}

\* The voxels of the loaded model, at pairwise distinct coordinates.
LoadedInputs ==
    {<<>>,
     <<[x |-> 0, y |-> 0, z |-> 0, i |-> 1]>>,
     <<[x |-> 0, y |-> 0, z |-> 0, i |-> 1],
       [x |-> U8_MAX, y |-> 0, z |-> 0, i |-> 0]>>}

\* The positions set: inside the u8 range, at its end, and beyond it on
\* either side.
PosInputs ==
    {<<0, 0, 0>>, <<1, 0, 0>>, <<U8_MAX, 0, 0>>, <<U8_MAX + 1, 0, 0>>,
     <<-1, 0, 0>>}

InitEdit ==
    /\ IdleFocus /\ IdleRecon /\ IdleVox
    /\ IdleTrace /\ IdleBody /\ IdleView /\ IdleRect /\ IdleOutline
    /\ \E voxels \in LoadedInputs, palette \in PaletteInputs :
          data = [models |-> <<[voxels |-> voxels]>>, palette |-> palette]
    /\ edit = [kind |-> "none", n |-> 0]

\* data.set_voxel(model_idx, pos, color)
SetVoxelCall ==
    /\ edit.kind # "panic"
    /\ edit.n < MaxEdits
    /\ \E model_idx \in {0, 1}, pos \in PosInputs,
          color \in {Red, Green, DarkRed} :
          LET res == SetVoxel(data, model_idx, pos, color)
          IN /\ edit' = [kind |-> res.kind, n |-> edit.n + 1,
                         model_idx |-> model_idx, pos |-> pos,
                         color |-> color, before |-> data]
             /\ data' = IF res.kind = "ok" THEN res.data ELSE data
    /\ UNCHANGED notEdit

NextEdit == SetVoxelCall

SpecEdit == InitEdit /\ [][NextEdit]_vars

\* The coordinates of a voxel.
Coords(v) == <<v.x, v.y, v.z>>

\* C12: after a set_voxel call the model's voxels have pairwise distinct
\* coordinates; the call added at most one voxel, left the index of every
\* voxel at other coordinates unchanged, and set the index of the voxel
\* at the given position to the first palette entry nearest to the color.
C12_SetVoxelEditsOneVoxel ==
    edit.kind = "ok" =>
        LET old == edit.before.models[edit.model_idx + 1].voxels
            new == data.models[edit.model_idx + 1].voxels
        IN /\ \A j, k \in 1 .. Len(new) :
                 Coords(new[j]) = Coords(new[k]) => j = k
           /\ Len(new) <= Len(old) + 1
           /\ \A k \in 1 .. Len(old) :
                 Coords(old[k]) # edit.pos =>
                    \E j \in 1 .. Len(new) : new[j] = old[k]
           /\ \E j \in 1 .. Len(new) :
                 /\ Coords(new[j]) = edit.pos
                 /\ new[j].i = Closest(data.palette, edit.color).val

=============================================================================
